---- MODULE Spec2Model ----
(***************************************************************************)
(* The client-side AI-state orchestration of the dashboard page            *)
(* (src/app/dashboard/page.tsx; the mascot click handler exists only in    *)
(* the page variant src/unnamed/part_002, whose remaining logic is         *)
(* line-for-line the same component).                                      *)
(*                                                                         *)
(* React semantics kept by the model:                                      *)
(*   - state setters called in one handler run (one task or one promise    *)
(*     continuation) are batched: the commit sees the last value set;      *)
(*   - an effect re-runs after a commit in which one of its dependencies   *)
(*     changed; its cleanup (clearTimeout) runs first;                     *)
(*   - a timer callback closes over the values of the render that          *)
(*     scheduled it.                                                       *)
(* Time is counted in ticks of TickMs milliseconds.                        *)
(***************************************************************************)
EXTENDS Integers, Sequences, FiniteSets, TLC

\* ------------------------------------------------------------------ bounds
MaxLen == 3            \* longest ingredient text (characters)
MaxPlaybacks == 2      \* speak attempts in progress at once
MaxResetTimers == 2    \* pending warning/laugh setTimeout callbacks
MaxProbes == 1         \* getUserMedia probes in progress at once
MaxPhrases == 3        \* phrases in a generated analysis text

\* --------------------------------------------------------------- constants
TypingDelayMs == 500
FallbackDelayMs == 10000
EmptyWarningDelayMs == 3000
FailWarningDelayMs == 5000
LaughDelayMs == 3000
ConfidenceThreshold == 70      \* 0.7, confidence being held in hundredths

TickMs == TypingDelayMs        \* every delay is a multiple of the shortest
TypingDelay == TypingDelayMs \div TickMs
FallbackDelay == FallbackDelayMs \div TickMs
EmptyWarningDelayAsFailure == FailWarningDelayMs \div TickMs
EmptyWarningDelay == EmptyWarningDelayMs \div TickMs
FailWarningDelay == FailWarningDelayMs \div TickMs
LaughDelay == LaughDelayMs \div TickMs

NoTimer == 0 - 1
NoText == "null"
NoUtterance == [text |-> NoText, stale |-> FALSE]

AIState == {"idle", "listening", "thinking", "speaking", "unsure", "warning", "laugh"}

\* ---------------------------------------------------------------- messages
MsgEmptyInput == "Please enter ingredients to analyze"
MsgAnalysisFailed == "Something went wrong. Please try again."
MsgNoSynthesis == "Your browser doesn't support speech synthesis. Please use Chrome, Edge, or Safari."
MsgUtteranceFailed == "Failed to speak text. Please try again."
MsgSpeakKey == "Text-to-speech API key not configured. Please add ELEVENLABS_API_KEY to .env.local"
MsgSpeakFailed == "Failed to generate speech. Please try again."
MsgSpeakUnknown == "Unknown error"
MsgSpeakUpstream == "upstream error text"
MsgNotAudio == "Invalid audio response. Please check your API configuration."
MsgEmptyAudio == "Empty audio response. Please try again."
MsgSpeakNetwork == "Failed to generate speech. Please check your internet connection and try again."
MsgPlayBlocked == "Audio playback blocked by browser. Please click to interact with the page first, then try again."
MsgPlayUnsupported == "Audio format not supported. The API may have returned an invalid audio format. Please check your ElevenLabs API key and configuration."
MsgPlayOther == "Failed to play audio. Please try again."
MsgPlayDetail == "Audio playback error: detail"
MsgMediaAborted == "Audio playback was aborted."
MsgMediaNetwork == "Network error while loading audio."
MsgMediaDecode == "Audio format not supported or corrupted. The API may have returned invalid audio data. Please check your ElevenLabs API key."
MsgMediaSrc == "Audio format not supported by your browser. The API may have returned an invalid format. Please check your ElevenLabs API configuration."
MsgMediaNone == "Failed to play audio."
MsgRecUnsupported == "Speech recognition is not supported in your browser. Please use Chrome, Edge, or Safari."
MsgRecInitFailed == "Failed to initialize speech recognition. Your browser may not support this feature."
MsgRecNotInit == "Speech recognition not initialized. Please refresh the page."
MsgRecRunning == "Speech recognition is already running. Please wait."
MsgRecProcess == "Failed to process speech. Please try again."
MsgMicDenied == "Microphone permission denied. Please allow microphone access in your browser settings and try again."
MsgMicNotFound == "No microphone found. Please connect a microphone and try again."
MsgMicBusy == "Microphone is being used by another application. Please close other apps using the microphone."
MsgMicOther == "Microphone access denied."
MsgMicDetail == "getUserMedia failure detail"
MsgRecNoSpeech == "No speech detected. Please try again."
MsgRecCapture == "Microphone not found or not accessible. Please check your microphone permissions."
MsgRecNotAllowed == "Microphone permission denied. Please allow microphone access in your browser settings."
MsgRecNetwork == "Network error. Please check your internet connection."
MsgRecAborted == "Speech recognition was aborted."
MsgRecService == "Speech recognition service not allowed. Please check your browser settings."
MsgRecOther == "Speech recognition error: language-not-supported. Please try again."
NoMessage == "null"

\* ------------------------------------------------------------------ inputs
Blank == " "
TypedInputs == {<<>>, <<Blank>>, <<"a">>}
Transcripts == {<<"a">>}
Malformed == <<"malformed">>
NoConfidence == 0 - 1                  \* the reply carries no confidence
Confidences == {NoConfidence, 0, 50, 70, 95}
ProbeErrors == {"NotAllowedError", "NotFoundError", "NotReadableError",
                "WithMessage", "OverconstrainedError"}
RecErrors == {"no-speech"}
PlayErrors == {"NotAllowedError"}
MediaErrorCodes == {3}

VARIABLES
    browser,          \* facilities offered by the platform (fixed after load)
    aiState, ingredients, analyzing, listening,
    analysisResult, analysisError, micError, speechRecognitionSupported,
    typingTimer,      \* remaining ticks of the 500 ms typing timer, or NoTimer
    fallbackTimer,    \* remaining ticks of the 10 s speaking timer, or NoTimer
    resetTimers,      \* uncancelled setTimeout(() => setAiState("idle")) callbacks
    analysisReqs,     \* fetches of /api/analyze in flight
    playbacks,        \* speakText invocations in progress
    utterance,        \* the utterance being spoken by speechSynthesis
    cancelledUtterances, \* cancelled utterances whose error event is still to come
    probes,           \* getUserMedia calls in flight
    rec,              \* the SpeechRecognition engine
    request,          \* the call a route handler was entered with, if any
    response,         \* what the route handler answered, if it has
    ev,               \* (history) the watched operation just performed, if any
    watch             \* (history) last non-timer event and the ticks since

reactVars == <<aiState, ingredients, analyzing, listening, analysisResult,
               analysisError, micError, speechRecognitionSupported>>
timerVars == <<typingTimer, fallbackTimer, resetTimers>>
speechVars == <<playbacks, utterance, cancelledUtterances>>
captureVars == <<probes, rec>>
serverVars == <<request, response>>
pageVars == <<browser, reactVars, timerVars, analysisReqs, speechVars, captureVars>>
vars == <<pageVars, serverVars, ev, watch>>

\* ----------------------------------------------------------------- helpers
RECURSIVE TrimStart(_)
TrimStart(s) == IF s # <<>> /\ Head(s) = Blank THEN TrimStart(Tail(s)) ELSE s

RECURSIVE TrimEnd(_)
TrimEnd(s) ==
    IF s # <<>> /\ s[Len(s)] = Blank THEN TrimEnd(SubSeq(s, 1, Len(s) - 1)) ELSE s

\* String.prototype.trim
Trim(s) == TrimEnd(TrimStart(s))

\* prev + (prev ? " " : "") + transcript
AppendTranscript(prev, transcript) ==
    prev \o (IF prev # <<>> THEN <<Blank>> ELSE <<>>) \o transcript

RemoveAt(seq, i) == SubSeq(seq, 1, i - 1) \o SubSeq(seq, i + 1, Len(seq))

\* String.prototype.includes
includes(text, keyword) ==
    \E i \in 0..(Len(text) - Len(keyword)) :
        SubSeq(text, i + 1, i + Len(keyword)) = keyword

\* String.prototype.startsWith
startsWith(text, prefix) ==
    /\ Len(text) >= Len(prefix)
    /\ SubSeq(text, 1, Len(prefix)) = prefix

TimersPending ==
    typingTimer # NoTimer \/ fallbackTimer # NoTimer \/ resetTimers # <<>>

\* disabled={!ingredients.trim() || analyzing || listening}
AnalyzeDisabled == Trim(ingredients) = <<>> \/ analyzing \/ listening

\* ----------------------------------------------------------------- history
NoEvent == [name |-> "none"]
NoWatch == [op |-> NoEvent, elapsed |-> 0]

\* The operations that enter a state with a timed way out.
Watched == {"submitEmpty", "AnalyzeReplyOk", "AnalyzeReplyFailed",
            "handleCopilotClick", "SpeakReply"}

\* The operations whose run is recorded in ev.
Recorded == Watched \cup {"ProbeGranted", "ProbeDenied", "startUnsupported",
                         "AudioPlayRejected", "AudioError", "UtteranceError",
                         "CancelledUtteranceError", "clearListeningInput",
                         "handleStopSpeaking", "AudioEnded"}

\* A user event or a completion.  The watch follows a watched one when no
\* timer was pending before it, so that every timer that fires afterwards
\* is its own; any other event ends the watch.
Note(label) ==
    /\ ev' = IF label.name \in Recorded THEN label ELSE NoEvent
    /\ watch' = IF label.name \in Watched /\ ~TimersPending
                THEN [op |-> label, elapsed |-> 0] ELSE NoWatch
    /\ UNCHANGED serverVars

\* A timer callback: the watch keeps running.
NoteTimer(label) ==
    /\ ev' = NoEvent
    /\ watch' = watch
    /\ UNCHANGED serverVars

\* ------------------------------------------------------------------ commit
(* The commit of one handler run, followed by the two effects of the      *)
(* component.  st, ing, an, lis are the values the handler leaves in      *)
(* aiState, ingredients, analyzing, listening.                            *)
TypingEffectRuns(ing, an, lis) == <<ing, an, lis>> # <<ingredients, analyzing, listening>>

TypingEffectArms(ing, an, lis) == Trim(ing) # <<>> /\ ~an /\ ~lis

\* A typing effect without its else branch.
TypingEffectIdlesNever(st, ing, an) == FALSE

TypingEffectIdles(st, ing, an) == Trim(ing) = <<>> /\ st = "listening" /\ ~an

\* A commit whose speaking effect has no cleanup: the timer armed on
\* entering speaking keeps running when aiState changes.
CommitWithoutCleanup(st, ing, an, lis, tt, ft) ==
    LET runs == TypingEffectRuns(ing, an, lis)
        arms == runs /\ TypingEffectArms(ing, an, lis)
        idles == runs /\ ~TypingEffectArms(ing, an, lis) /\ TypingEffectIdles(st, ing, an)
        final == IF idles THEN "idle" ELSE st
    IN  /\ aiState' = final
        /\ ingredients' = ing
        /\ analyzing' = an
        /\ listening' = lis
        /\ typingTimer' = IF runs THEN (IF arms THEN TypingDelay ELSE NoTimer) ELSE tt
        /\ fallbackTimer' = IF final = "speaking" /\ (st # aiState \/ ft = NoTimer)
                            THEN FallbackDelay ELSE ft

\* tt, ft: the two effect timers as the handler run leaves them (a timer
\* that has just fired is gone).
Commit(st, ing, an, lis, tt, ft) ==
    LET runs == TypingEffectRuns(ing, an, lis)
        arms == runs /\ TypingEffectArms(ing, an, lis)
        idles == runs /\ ~TypingEffectArms(ing, an, lis) /\ TypingEffectIdles(st, ing, an)
        final == IF idles THEN "idle" ELSE st
    IN  /\ aiState' = final
        /\ ingredients' = ing
        /\ analyzing' = an
        /\ listening' = lis
        /\ typingTimer' = IF runs THEN (IF arms THEN TypingDelay ELSE NoTimer) ELSE tt
        /\ fallbackTimer' = IF st # aiState \/ final # st
                            THEN (IF final = "speaking" THEN FallbackDelay ELSE NoTimer)
                            ELSE ft

Render(st, ing, an, lis) == Commit(st, ing, an, lis, typingTimer, fallbackTimer)

\* Setters called in one run are batched: the last call wins.
Batched(calls) == calls[Len(calls)]

\* A setter that stores a value outside the AIState union for the laugh.
SetAiStateUntyped(st) ==
    Render(IF st = "laugh" THEN "happy" ELSE st, ingredients, analyzing, listening)

SetAiState(st) == Render(st, ingredients, analyzing, listening)

\* ------------------------------------------------------------- user input
\* <textarea onChange={(e) => setIngredients(e.target.value)}>
SetIngredients(v) ==
    /\ v # ingredients
    /\ Render(aiState, v, analyzing, listening)
    /\ UNCHANGED <<browser, analysisResult, analysisError, micError,
                   speechRecognitionSupported, resetTimers, analysisReqs,
                   speechVars, captureVars>>
    /\ Note(IF Trim(ingredients) # <<>> /\ Trim(v) = <<>> /\ aiState = "listening"
            THEN [name |-> "clearListeningInput"]
            ELSE [name |-> "SetIngredients"])

\* The Copilot's onClick (page variant with the clickable mascot).
handleCopilotClick ==
    /\ Len(resetTimers) < MaxResetTimers
    /\ SetAiState("laugh")
    /\ resetTimers' = Append(resetTimers, [kind |-> "laugh", remaining |-> LaughDelay])
    /\ UNCHANGED <<browser, analysisResult, analysisError, micError,
                   speechRecognitionSupported, analysisReqs, speechVars, captureVars>>
    /\ Note([name |-> "handleCopilotClick"])

\* ---------------------------------------------------------------- analysis
\* handleAnalyze up to its first await.
handleAnalyze ==
    IF Trim(ingredients) = <<>>
    THEN /\ Len(resetTimers) < MaxResetTimers
         /\ analysisError' = MsgEmptyInput
         /\ SetAiState("warning")
         /\ resetTimers' = Append(resetTimers,
                [kind |-> "emptyWarning", remaining |-> EmptyWarningDelay])
         /\ UNCHANGED <<browser, analysisResult, micError, speechRecognitionSupported,
                        analysisReqs, speechVars, captureVars>>
         /\ Note([name |-> "submitEmpty"])
    ELSE /\ Render("thinking", ingredients, TRUE, listening)
         /\ analysisError' = ""
         /\ analysisResult' = NoText
         /\ analysisReqs' = analysisReqs + 1
         /\ UNCHANGED <<browser, micError, speechRecognitionSupported, resetTimers,
                        speechVars, captureVars>>
         /\ Note([name |-> "submit"])

\* The Analyze button, which the render disables.
ClickAnalyze ==
    /\ ~AnalyzeDisabled
    /\ handleAnalyze

\* handleAnalyze entered with nothing but blanks in the box.
SubmitEmpty ==
    /\ Trim(ingredients) = <<>>
    /\ handleAnalyze

\* if (data.isUncertain || (data.confidence && data.confidence < 0.7))
UncertainBranch(data) ==
    \/ data.isUncertain
    \/ (data.confidence # NoConfidence /\ data.confidence # 0
        /\ data.confidence < ConfidenceThreshold)

SpeaksInProgress ==
    Len(playbacks) + (IF utterance # NoUtterance THEN 1 ELSE 0) + Len(cancelledUtterances)

Superseded(seq) == [i \in 1..Len(seq) |-> [seq[i] EXCEPT !.stale = TRUE]]

\* speakText sending the request for audio twice.
SpeakTextStartedTwice(text) ==
    /\ playbacks' = Append(Append(Superseded(playbacks),
                                  [stage |-> "fetch", text |-> text, stale |-> TRUE]),
                           [stage |-> "fetch", text |-> text, stale |-> FALSE])
    /\ utterance' = IF utterance = NoUtterance THEN NoUtterance
                    ELSE [utterance EXCEPT !.stale = TRUE]
    /\ cancelledUtterances' = Superseded(cancelledUtterances)
\* speakText up to its first await: the request for audio is sent.
SpeakTextStarted(text) ==
    /\ playbacks' = Append(Superseded(playbacks),
                           [stage |-> "fetch", text |-> text, stale |-> FALSE])
    /\ utterance' = IF utterance = NoUtterance THEN NoUtterance
                    ELSE [utterance EXCEPT !.stale = TRUE]
    /\ cancelledUtterances' = Superseded(cancelledUtterances)

\* A success path that leaves the state as it is when there is no text.
AnalyzeStateCallsKeepsState(data) ==
    IF data.text # "" THEN <<"speaking">> ELSE <<aiState>>

\* A success path whose uncertain branch has no else.
AnalyzeStateCallsUnsureStays(data) ==
    IF UncertainBranch(data)
    THEN <<"unsure">> \o (IF data.text # "" THEN <<"speaking">> ELSE <<>>)
    ELSE IF data.text # "" THEN <<"speaking">> ELSE <<"idle">>

\* The setAiState calls of the success path, in program order; speakText
\* makes its own call before its first await.
AnalyzeStateCalls(data) ==
    IF UncertainBranch(data)
    THEN <<"unsure">> \o (IF data.text # "" THEN <<"speaking">> ELSE <<"idle">>)
    ELSE IF data.text # "" THEN <<"speaking">> ELSE <<"idle">>

\* The continuation of handleAnalyze on a 2xx reply with a JSON body.
AnalyzeReplyOk(data) ==
    /\ analysisReqs > 0
    /\ analysisReqs' = analysisReqs - 1
    /\ analysisResult' = data.text
    /\ IF data.text # ""
       THEN /\ SpeaksInProgress < MaxPlaybacks
            /\ SpeakTextStarted(data.text)
       ELSE UNCHANGED speechVars
    /\ Render(Batched(AnalyzeStateCalls(data)), ingredients, FALSE, listening)
    /\ UNCHANGED <<browser, analysisError, micError, speechRecognitionSupported,
                   resetTimers, captureVars>>
    /\ Note([name |-> "AnalyzeReplyOk", data |-> data, calls |-> AnalyzeStateCalls(data)])

\* A failure path that sends the request again.
AnalyzeReplyFailedRetries(kind) ==
    /\ analysisReqs > 0
    /\ Len(resetTimers) < MaxResetTimers
    /\ analysisReqs' = analysisReqs
    /\ analysisError' = MsgAnalysisFailed
    /\ Render("warning", ingredients, FALSE, listening)
    /\ resetTimers' = Append(resetTimers,
            [kind |-> "failWarning", remaining |-> FailWarningDelay])
    /\ UNCHANGED <<browser, analysisResult, micError, speechRecognitionSupported,
                   speechVars, captureVars>>
    /\ Note([name |-> "AnalyzeReplyFailed"])

\* The continuation on a non-2xx reply, and the catch block (the request
\* failed or the body is not JSON): the same statements in both.
AnalyzeReplyFailed(kind) ==
    /\ analysisReqs > 0
    /\ Len(resetTimers) < MaxResetTimers
    /\ analysisReqs' = analysisReqs - 1
    /\ analysisError' = MsgAnalysisFailed
    /\ Render("warning", ingredients, FALSE, listening)
    /\ resetTimers' = Append(resetTimers,
            [kind |-> "failWarning", remaining |-> FailWarningDelay])
    /\ UNCHANGED <<browser, analysisResult, micError, speechRecognitionSupported,
                   speechVars, captureVars>>
    /\ Note([name |-> "AnalyzeReplyFailed"])

\* Replies of the analysis collaborator: every shape, and the ones the
\* scenarios draw from.
AnalysisData == [text : {"", "t1", "t2"}, confidence : Confidences, isUncertain : BOOLEAN]
TypicalData == [text : {"", "t1"}, confidence : {50, 95}, isUncertain : BOOLEAN]
SpokenData == [text : {"t1", "t2"}, confidence : {95}, isUncertain : {FALSE}]
VoiceData == [text : {"", "t1"}, confidence : {95}, isUncertain : {FALSE}]
ConfidentData == [text : {"t1"}, confidence : {95}, isUncertain : {FALSE}]
UnsureData == {data \in [text : {"u1"}, confidence : {50, 95}, isUncertain : BOOLEAN] :
                  UncertainBranch(data)}
AnyData == [text : {"", "t1"}, confidence : {NoConfidence, 0, 55, 70, 100},
            isUncertain : BOOLEAN]
AnalysisFailures == {"non2xx", "network", "badJson"}

\* ------------------------------------------------------------ speech output
RemoteReplies ==
    {[kind |-> "error", error |-> "", status |-> 401],
     [kind |-> "ok", audio |-> FALSE, size |-> 1],
     [kind |-> "ok", audio |-> TRUE, size |-> 0],
     [kind |-> "ok", audio |-> TRUE, size |-> 1]}
FallbackReplies == {[kind |-> "fallback"]}
UnreachableReplies == {[kind |-> "network"]}

\* errorData.error || (res.status === 401 ? ... : ...)
SpeakErrorMessage(reply) ==
    IF reply.kind = "badJson" THEN MsgSpeakUnknown
    ELSE IF reply.error # "" THEN reply.error
    ELSE IF reply.status = 401 THEN MsgSpeakKey
    ELSE MsgSpeakFailed

\* speakWithBrowserTTS(text) reporting an error although the browser
\* offers speech synthesis.
speakWithBrowserTTSUnsupported(pb) ==
    /\ analysisError' = MsgNoSynthesis
    /\ SetAiState("idle")
    /\ UNCHANGED <<utterance, cancelledUtterances>>

\* ---------------------------------------------------------- voice selection
\* The voices speechSynthesis.getVoices() may list: a name, a language tag
\* and whether the voice is hosted on the device.
VoiceNames == {<<"A","r","i","a"," ","N","a","t","u","r","a","l">>,
               <<"N","e","u","r","a","l"," ","J","o","e">>,
               <<"B","o","b">>}
VoiceLangs == {<<"e","n","-","U","S">>, <<"f","r","-","F","R">>}
Voices == [name : VoiceNames, lang : VoiceLangs, localService : BOOLEAN]

\* The longest list of voices considered.
MaxVoices == 2
VoiceLists == UNION {[1..n -> Voices] : n \in 0..MaxVoices}

\* utterance.voice left unset: the platform's default voice speaks.
NoVoice == [name |-> <<>>, lang |-> <<>>, localService |-> FALSE]

TargetLang == <<"e","n">>

\* (v.name.includes("Natural") || v.name.includes("Neural")) && v.lang.startsWith("en")
isNaturalVoice(v) ==
    /\ \/ includes(v.name, <<"N","a","t","u","r","a","l">>)
       \/ includes(v.name, <<"N","e","u","r","a","l">>)
    /\ startsWith(v.lang, TargetLang)

\* v.lang.startsWith("en") && v.localService
isLocalVoice(v) == startsWith(v.lang, TargetLang) /\ v.localService

\* v.lang.startsWith("en")
isLangVoice(v) == startsWith(v.lang, TargetLang)

\* Array.prototype.find over the positions that pass the test: the first
\* element that passes, NoVoice (undefined) when none does.
find(list, hits) ==
    IF hits = {} THEN NoVoice
    ELSE list[CHOOSE i \in hits : \A j \in hits : i <= j]

\* preferredVoice: the local-hosted test is tried before the label test.
preferredVoiceLocalFirst(list) ==
    LET natural == find(list, {i \in DOMAIN list : isNaturalVoice(list[i])})
        local == find(list, {i \in DOMAIN list : isLocalVoice(list[i])})
        lang == find(list, {i \in DOMAIN list : isLangVoice(list[i])})
    IN IF local # NoVoice THEN local
       ELSE IF natural # NoVoice THEN natural
       ELSE lang
\* const preferredVoice = voices.find(...) || voices.find(...) || voices.find(...)
preferredVoice(list) ==
    LET natural == find(list, {i \in DOMAIN list : isNaturalVoice(list[i])})
        local == find(list, {i \in DOMAIN list : isLocalVoice(list[i])})
        lang == find(list, {i \in DOMAIN list : isLangVoice(list[i])})
    IN IF natural # NoVoice THEN natural
       ELSE IF local # NoVoice THEN local
       ELSE lang

\* speakWithBrowserTTS(text), called for the speak attempt pb.
speakWithBrowserTTS(pb) ==
    IF ~browser.synthesis
    THEN /\ analysisError' = MsgNoSynthesis
         /\ SetAiState("idle")
         /\ UNCHANGED <<utterance, cancelledUtterances>>
    ELSE /\ SetAiState("speaking")
         \* speechSynthesis.cancel(): the utterance being spoken is dropped;
         \* the engine may report it through the utterance's error event.
         /\ \E reported \in BOOLEAN :
              cancelledUtterances' =
                  IF utterance # NoUtterance /\ reported
                  THEN Append(cancelledUtterances, utterance) ELSE cancelledUtterances
         \* if (preferredVoice) utterance.voice = preferredVoice
         /\ utterance' = [text |-> pb.text, stale |-> pb.stale,
                          voice |-> preferredVoice(browser.voices)]
         /\ UNCHANGED analysisError

\* A failed speak attempt that goes on to local synthesis instead of ending.
EndAttemptFallsThrough(i, message) ==
    /\ playbacks' = RemoveAt(playbacks, i)
    /\ speakWithBrowserTTS(playbacks[i])

\* setAnalysisError(message); setAiState("idle"); return;
EndAttempt(i, message) ==
    /\ playbacks' = RemoveAt(playbacks, i)
    /\ analysisError' = message
    /\ SetAiState("idle")
    /\ UNCHANGED <<utterance, cancelledUtterances>>

\* The continuation of speakText once fetch("/api/speak") has settled.
SpeakReply(i, reply) ==
    /\ i \in 1..Len(playbacks)
    /\ playbacks[i].stage = "fetch"
    /\ IF reply.kind = "fallback"
       THEN /\ playbacks' = RemoveAt(playbacks, i)
            /\ speakWithBrowserTTS(playbacks[i])
       ELSE IF reply.kind \in {"error", "badJson"}
       THEN EndAttempt(i, SpeakErrorMessage(reply))
       ELSE IF reply.kind = "network"
       THEN EndAttempt(i, MsgSpeakNetwork)
       ELSE IF ~reply.audio
       THEN EndAttempt(i, MsgNotAudio)
       ELSE IF reply.size = 0
       THEN EndAttempt(i, MsgEmptyAudio)
       ELSE /\ playbacks' = [playbacks EXCEPT ![i].stage = "play"]
            /\ UNCHANGED <<reactVars, typingTimer, fallbackTimer,
                           utterance, cancelledUtterances>>
    /\ UNCHANGED <<browser, analysisResult, micError, speechRecognitionSupported,
                   resetTimers, analysisReqs, captureVars>>
    /\ Note([name |-> "SpeakReply", reply |-> reply])

\* await audio.play() resolves: playback has begun.
AudioPlayResolved(i) ==
    /\ i \in 1..Len(playbacks)
    /\ playbacks[i].stage = "play"
    /\ playbacks' = [playbacks EXCEPT ![i].stage = "playing"]
    /\ UNCHANGED <<browser, reactVars, timerVars, analysisReqs, utterance,
                   cancelledUtterances, captureVars>>
    /\ Note([name |-> "AudioPlayResolved"])

PlayErrorMessage(name) ==
    IF name = "NotAllowedError" THEN MsgPlayBlocked
    ELSE IF name = "NotSupportedError" THEN MsgPlayUnsupported
    ELSE IF name = "WithMessage" THEN MsgPlayDetail
    ELSE MsgPlayOther

\* await audio.play() rejects: the inner catch of speakText.
AudioPlayRejected(i, name) ==
    /\ i \in 1..Len(playbacks)
    /\ playbacks[i].stage \in {"play", "rejecting"}
    /\ playbacks' = RemoveAt(playbacks, i)
    /\ analysisError' = PlayErrorMessage(name)
    /\ SetAiState("idle")
    /\ UNCHANGED <<browser, analysisResult, micError, speechRecognitionSupported,
                   resetTimers, analysisReqs, utterance, cancelledUtterances,
                   captureVars>>
    /\ Note([name |-> "AudioPlayRejected"])

\* A handler whose message starts out empty.
MediaErrorMessageUnset(code) ==
    CASE code = 0 -> ""
      [] code = 1 -> MsgMediaAborted
      [] code = 2 -> MsgMediaNetwork
      [] code = 3 -> MsgMediaDecode
      [] code = 4 -> MsgMediaSrc

MediaErrorMessage(code) ==
    CASE code = 0 -> MsgMediaNone
      [] code = 1 -> MsgMediaAborted
      [] code = 2 -> MsgMediaNetwork
      [] code = 3 -> MsgMediaDecode
      [] code = 4 -> MsgMediaSrc

\* audio.onerror; an error while play() is pending also rejects play().
AudioError(i, code) ==
    /\ i \in 1..Len(playbacks)
    /\ playbacks[i].stage \in {"play", "playing"}
    /\ playbacks' = IF playbacks[i].stage = "play"
                    THEN [playbacks EXCEPT ![i].stage = "rejecting"]
                    ELSE RemoveAt(playbacks, i)
    /\ analysisError' = MediaErrorMessage(code)
    /\ SetAiState("idle")
    /\ UNCHANGED <<browser, analysisResult, micError, speechRecognitionSupported,
                   resetTimers, analysisReqs, utterance, cancelledUtterances,
                   captureVars>>
    /\ Note([name |-> "AudioError"])

\* audio.onended
AudioEnded(i) ==
    /\ i \in 1..Len(playbacks)
    /\ playbacks[i].stage = "playing"
    /\ playbacks' = RemoveAt(playbacks, i)
    /\ SetAiState("idle")
    /\ UNCHANGED <<browser, analysisResult, analysisError, micError,
                   speechRecognitionSupported, resetTimers, analysisReqs,
                   utterance, cancelledUtterances, captureVars>>
    /\ Note([name |-> "AudioEnded", text |-> playbacks[i].text])

\* utterance.onend
UtteranceEnd ==
    /\ utterance # NoUtterance
    /\ utterance' = NoUtterance
    /\ SetAiState("idle")
    /\ UNCHANGED <<browser, analysisResult, analysisError, micError,
                   speechRecognitionSupported, resetTimers, analysisReqs,
                   playbacks, cancelledUtterances, captureVars>>
    /\ Note([name |-> "UtteranceEnd"])

\* utterance.onerror of the utterance being spoken
UtteranceError ==
    /\ utterance # NoUtterance
    /\ utterance' = NoUtterance
    /\ analysisError' = MsgUtteranceFailed
    /\ SetAiState("idle")
    /\ UNCHANGED <<browser, analysisResult, micError, speechRecognitionSupported,
                   resetTimers, analysisReqs, playbacks, cancelledUtterances,
                   captureVars>>
    /\ Note([name |-> "UtteranceError"])

\* utterance.onerror of an utterance dropped by speechSynthesis.cancel()
CancelledUtteranceError ==
    /\ cancelledUtterances # <<>>
    /\ cancelledUtterances' = Tail(cancelledUtterances)
    /\ analysisError' = MsgUtteranceFailed
    /\ SetAiState("idle")
    /\ UNCHANGED <<browser, analysisResult, micError, speechRecognitionSupported,
                   resetTimers, analysisReqs, playbacks, utterance, captureVars>>
    /\ Note([name |-> "CancelledUtteranceError"])

\* handleStopSpeaking, the handler of the Stop control shown while the
\* speaking flag is set: synthesisRef.current.cancel(), setSpeaking(false),
\* setAiState("idle").  The Audio element speakText plays is not touched.
handleStopSpeaking ==
    /\ IF browser.synthesis
       THEN /\ \E reported \in BOOLEAN :
                 cancelledUtterances' =
                     IF utterance # NoUtterance /\ reported
                     THEN Append(cancelledUtterances, utterance)
                     ELSE cancelledUtterances
            /\ utterance' = NoUtterance
            /\ SetAiState("idle")
            /\ UNCHANGED <<browser, analysisResult, analysisError, micError,
                           speechRecognitionSupported, resetTimers, analysisReqs,
                           playbacks, captureVars>>
       ELSE UNCHANGED <<browser, reactVars, timerVars, analysisReqs, speechVars,
                        captureVars>>
    /\ Note([name |-> "handleStopSpeaking"])

\* ----------------------------------------------------------- speech capture
\* handleStopListening
handleStopListening ==
    IF browser.recognition = "available" /\ listening
    THEN \* recognition.stop(); recognition.abort()
         /\ rec' = IF rec = "inactive" THEN rec ELSE "aborting"
         /\ micError' = NoMessage
         /\ Render("idle", ingredients, analyzing, FALSE)
         /\ UNCHANGED <<browser, analysisResult, analysisError,
                        speechRecognitionSupported, resetTimers, analysisReqs,
                        speechVars, probes>>
    ELSE UNCHANGED <<browser, reactVars, timerVars, analysisReqs, speechVars,
                     captureVars>>

\* A start that goes on to the permission probe without a recognizer.
handleStartListeningUnguarded ==
    IF listening
    THEN handleStopListening
    ELSE /\ probes < MaxProbes
         /\ probes' = probes + 1
         /\ UNCHANGED <<browser, reactVars, timerVars, analysisReqs, speechVars, rec>>

\* handleStartListening up to await getUserMedia
handleStartListening ==
    IF browser.recognition # "available"
    THEN /\ micError' = MsgRecNotInit
         /\ UNCHANGED <<browser, aiState, ingredients, analyzing, listening,
                        analysisResult, analysisError, speechRecognitionSupported,
                        timerVars, analysisReqs, speechVars, captureVars>>
    ELSE IF listening
    THEN handleStopListening
    ELSE /\ probes < MaxProbes
         /\ probes' = probes + 1
         /\ UNCHANGED <<browser, reactVars, timerVars, analysisReqs, speechVars, rec>>

\* The Record / Stop button, rendered when recognition is supported.
ClickRecord ==
    /\ speechRecognitionSupported
    /\ IF listening THEN handleStopListening ELSE handleStartListening
    /\ Note([name |-> IF listening THEN "stopListening" ELSE "startListening"])

\* handleStartListening entered while recognitionRef.current is null (the
\* Record button is not rendered then).
StartUnsupported ==
    /\ browser.recognition # "available"
    /\ handleStartListening
    /\ Note([name |-> "startUnsupported"])

\* A continuation that starts recognition while the probe stream is live.
ProbeGrantedCallsStartFirst == <<"recognition.start", "track.stop">>

\* The calls the continuation makes on the probe stream and the recognizer,
\* in program order.
ProbeGrantedCalls == <<"track.stop", "recognition.start">>

\* getUserMedia resolved: the tracks are stopped, recognition.start() is tried.
ProbeGranted ==
    /\ probes > 0
    /\ probes' = probes - 1
    /\ IF rec = "inactive"
       THEN /\ rec' = "starting"
            /\ micError' = NoMessage
            /\ SetAiState("listening")
       ELSE \* start() throws InvalidStateError
            /\ rec' = rec
            /\ micError' = MsgRecRunning
            /\ Render("idle", ingredients, analyzing, FALSE)
    /\ UNCHANGED <<browser, analysisResult, analysisError, speechRecognitionSupported,
                   resetTimers, analysisReqs, speechVars>>
    /\ Note([name |-> "ProbeGranted", calls |-> ProbeGrantedCalls])

\* The probe's failure reported without looking at its cause.
ProbeErrorMessageUnclassified(name) == MsgMicOther

ProbeErrorMessage(name) ==
    IF name \in {"NotAllowedError", "PermissionDeniedError"} THEN MsgMicDenied
    ELSE IF name \in {"NotFoundError", "DevicesNotFoundError"} THEN MsgMicNotFound
    ELSE IF name \in {"NotReadableError", "TrackStartError"} THEN MsgMicBusy
    ELSE IF name = "WithMessage" THEN MsgMicDetail
    ELSE MsgMicOther

\* getUserMedia rejected
ProbeDenied(name) ==
    /\ probes > 0
    /\ probes' = probes - 1
    /\ micError' = ProbeErrorMessage(name)
    /\ Render("idle", ingredients, analyzing, FALSE)
    /\ UNCHANGED <<browser, analysisResult, analysisError, speechRecognitionSupported,
                   resetTimers, analysisReqs, speechVars, rec>>
    /\ Note([name |-> "ProbeDenied", error |-> name])

\* recognition.onstart
RecOnStart ==
    /\ rec = "starting"
    /\ rec' = "running"
    /\ micError' = NoMessage
    /\ Render("listening", ingredients, analyzing, TRUE)
    /\ UNCHANGED <<browser, analysisResult, analysisError, speechRecognitionSupported,
                   resetTimers, analysisReqs, speechVars, probes>>
    /\ Note([name |-> "RecOnStart"])

\* recognition.onresult
RecOnResult(transcript) ==
    /\ rec = "running"
    /\ rec' = "ending"
    /\ IF transcript = Malformed
       THEN /\ micError' = MsgRecProcess
            /\ Render("idle", ingredients, analyzing, FALSE)
       ELSE /\ Len(AppendTranscript(ingredients, transcript)) <= MaxLen
            /\ micError' = NoMessage
            /\ Render("idle", AppendTranscript(ingredients, transcript), analyzing, FALSE)
    /\ UNCHANGED <<browser, analysisResult, analysisError, speechRecognitionSupported,
                   resetTimers, analysisReqs, speechVars, probes>>
    /\ Note([name |-> "RecOnResult"])

RecErrorMessage(error) ==
    CASE error = "no-speech" -> MsgRecNoSpeech
      [] error = "audio-capture" -> MsgRecCapture
      [] error = "not-allowed" -> MsgRecNotAllowed
      [] error = "network" -> MsgRecNetwork
      [] error = "aborted" -> MsgRecAborted
      [] error = "service-not-allowed" -> MsgRecService
      [] OTHER -> MsgRecOther

\* recognition.onerror; abort() is reported as the error "aborted"
RecOnError(error) ==
    /\ \/ rec \in {"starting", "running"} /\ error \in RecErrors
       \/ rec = "aborting" /\ error = "aborted"
    /\ rec' = "ending"
    /\ micError' = RecErrorMessage(error)
    /\ Render("idle", ingredients, analyzing, FALSE)
    /\ UNCHANGED <<browser, analysisResult, analysisError, speechRecognitionSupported,
                   resetTimers, analysisReqs, speechVars, probes>>
    /\ Note([name |-> "RecOnError"])

\* recognition.onend
RecOnEnd ==
    /\ rec \in {"running", "ending", "aborting"}
    /\ rec' = "inactive"
    /\ Render("idle", ingredients, analyzing, FALSE)
    /\ UNCHANGED <<browser, analysisResult, analysisError, micError,
                   speechRecognitionSupported, resetTimers, analysisReqs,
                   speechVars, probes>>
    /\ Note([name |-> "RecOnEnd"])

\* ------------------------------------------------------------------ timers
\* The typing effect's timer: its closure holds a non-blank input and
\* analyzing = false, so the test it makes always passes.
TypingTimerFire ==
    /\ typingTimer = 0
    /\ Commit("listening", ingredients, analyzing, listening, NoTimer, fallbackTimer)
    /\ UNCHANGED <<browser, analysisResult, analysisError, micError,
                   speechRecognitionSupported, resetTimers, analysisReqs,
                   speechVars, captureVars>>
    /\ NoteTimer([name |-> "TypingTimerFire"])

\* The speaking effect's timer: its closure holds aiState = "speaking".
FallbackTimerFire ==
    /\ fallbackTimer = 0
    /\ Commit("idle", ingredients, analyzing, listening, typingTimer, NoTimer)
    /\ UNCHANGED <<browser, analysisResult, analysisError, micError,
                   speechRecognitionSupported, resetTimers, analysisReqs,
                   speechVars, captureVars>>
    /\ NoteTimer([name |-> "FallbackTimerFire"])

\* A reset timer whose callback leaves aiState alone.
ResetTimerFireKeepsState(i) ==
    /\ i \in 1..Len(resetTimers)
    /\ resetTimers[i].remaining = 0
    /\ resetTimers' = RemoveAt(resetTimers, i)
    /\ UNCHANGED <<browser, reactVars, typingTimer, fallbackTimer, analysisReqs,
                   speechVars, captureVars>>
    /\ NoteTimer([name |-> "ResetTimerFire"])

\* setTimeout(() => setAiState("idle"), ...) of a warning or of the laugh
ResetTimerFire(i) ==
    /\ i \in 1..Len(resetTimers)
    /\ resetTimers[i].remaining = 0
    /\ resetTimers' = RemoveAt(resetTimers, i)
    /\ SetAiState("idle")
    /\ UNCHANGED <<browser, analysisResult, analysisError, micError,
                   speechRecognitionSupported, analysisReqs, speechVars, captureVars>>
    /\ NoteTimer([name |-> "ResetTimerFire"])

Min(a, b) == IF a < b THEN a ELSE b

RECURSIVE MinRemaining(_, _)
MinRemaining(timers, least) ==
    IF timers = <<>> THEN least
    ELSE MinRemaining(Tail(timers), Min(Head(timers).remaining, least))

\* The ticks until the earliest pending deadline.
NextDeadline ==
    MinRemaining(resetTimers,
        Min(IF typingTimer = NoTimer THEN FallbackDelay ELSE typingTimer,
            IF fallbackTimer = NoTimer THEN FallbackDelay ELSE fallbackTimer))

\* Time passes up to the earliest pending deadline; a timer that is due
\* fires before time moves on.
Tick ==
    /\ TimersPending
    /\ NextDeadline > 0
    /\ typingTimer' = IF typingTimer = NoTimer THEN NoTimer ELSE typingTimer - NextDeadline
    /\ fallbackTimer' = IF fallbackTimer = NoTimer THEN NoTimer
                        ELSE fallbackTimer - NextDeadline
    /\ resetTimers' = [i \in 1..Len(resetTimers) |->
                         [resetTimers[i] EXCEPT !.remaining = @ - NextDeadline]]
    /\ ev' = NoEvent
    /\ watch' = IF watch = NoWatch THEN NoWatch
                ELSE [watch EXCEPT !.elapsed = @ + NextDeadline]
    /\ UNCHANGED <<browser, reactVars, analysisReqs, speechVars, captureVars, serverVars>>

\* ------------------------------------------------------------ specification
\* The component after its mount effects have run.
\* ------------------------------------------------------------ server routes
\* Texts are sequences of characters.
NoRequest == [route |-> "none"]
NoResponse == [status |-> 0]

\* catch (error) of a route, and the framework's answer to a handler that throws
InternalError == [status |-> 500, body |-> [error |-> "Internal server error"]]

uncertaintyKeywords ==
    <<<<"u", "n", "c", "e", "r", "t", "a", "i", "n">>,
       <<"u", "n", "c", "l", "e", "a", "r">>,
       <<"n", "o", "t", " ", "s", "u", "r", "e">>,
       <<"m", "i", "g", "h", "t">>,
       <<"p", "o", "s", "s", "i", "b", "l", "y">>,
       <<"p", "e", "r", "h", "a", "p", "s">>,
       <<"m", "a", "y", "b", "e">>,
       <<"c", "o", "u", "l", "d", " ", "b", "e">>,
       <<"u", "n", "c", "l", "e", "a", "r">>,
       <<"u", "n", "k", "n", "o", "w", "n">>,
       <<"h", "a", "r", "d", " ", "t", "o", " ", "t", "e", "l", "l">>,
       <<"d", "i", "f", "f", "i", "c", "u", "l", "t", " ", "t", "o", " ", "d", "e", "t", "e", "r", "m", "i", "n", "e">>,
       <<"n", "o", "t", " ", "c", "e", "r", "t", "a", "i", "n">>,
       <<"a", "m", "b", "i", "g", "u", "o", "u", "s">>>>

\* String.prototype.toLowerCase, letter by letter.
UpperCaseLetters == <<"A","B","C","D","E","F","G","H","I","J","K","L","M","N","O","P","Q","R","S","T","U","V","W","X","Y","Z">>
LowerCaseLetters == <<"a","b","c","d","e","f","g","h","i","j","k","l","m","n","o","p","q","r","s","t","u","v","w","x","y","z">>

LowerCaseOf(c) ==
    IF \E i \in 1..26 : UpperCaseLetters[i] = c
    THEN LowerCaseLetters[CHOOSE i \in 1..26 : UpperCaseLetters[i] = c]
    ELSE c

toLowerCase(text) == [i \in 1..Len(text) |-> LowerCaseOf(text[i])]

\* uncertaintyKeywords.filter(keyword => lowerText.includes(keyword)).length
uncertaintyCount(text) ==
    Cardinality({k \in 1..Len(uncertaintyKeywords) :
                    includes(toLowerCase(text), uncertaintyKeywords[k])})

\* Math.max(0, 1 - uncertaintyCount * 0.15), in hundredths.  In double
\* arithmetic 1 - 2 * 0.15 is 0.7, which is not below 0.7.
confidenceOf(count) == IF 100 - count * 15 > 0 THEN 100 - count * 15 ELSE 0

\* A threshold that takes 0.7 itself for uncertain.
isUncertainOfInclusive(count) == confidenceOf(count) <= 70 \/ count >= 3

isUncertainOf(count) == confidenceOf(count) < 70 \/ count >= 3

\* What the language model may write: up to MaxPhrases phrases.
Phrases == {<<"U", "n", "c", "l", "e", "a", "r">>,
            <<"m", "a", "y", "b", "e">>,
            <<"M", "I", "G", "H", "T">>,
            <<"p", "e", "r", "h", "a", "p", "s">>,
            <<"t", "a", "s", "t", "y">>,
            <<"p", "o", "s", "s", "i", "b", "l", "y", " ", "u", "n", "k", "n", "o", "w", "n", " ", "a", "m", "b", "i", "g", "u", "o", "u", "s", " ", "u", "n", "c", "e", "r", "t", "a", "i", "n">>,
            <<"h", "a", "r", "d", " ", "t", "o", " ", "t", "e", "l", "l", ",", " ", "n", "o", "t", " ", "c", "e", "r", "t", "a", "i", "n", ",", " ", "c", "o", "u", "l", "d", " ", "b", "e">>}

RECURSIVE Join(_)
Join(ps) ==
    IF ps = <<>> THEN <<>>
    ELSE IF Len(ps) = 1 THEN ps[1]
    ELSE ps[1] \o <<" ">> \o Join(Tail(ps))

GeneratedTexts == {Join(ps) : ps \in UNION {[1..n -> Phrases] : n \in 0..MaxPhrases}}

AnalyzeRequests ==
    [route : {"analyze"}, generation : {"text"}, generated : GeneratedTexts]
        \cup {[route |-> "analyze", generation |-> "throws", generated |-> <<>>]}

\* POST of the analyze route, from the reply of the language model on.
AnalyzePOST ==
    /\ request.route = "analyze"
    /\ response = NoResponse
    /\ response' =
          IF request.generation = "throws" THEN InternalError
          ELSE [status |-> 200,
                body |-> [text |-> request.generated,
                          confidence |-> confidenceOf(uncertaintyCount(request.generated)),
                          isUncertain |-> isUncertainOf(uncertaintyCount(request.generated))]]
    /\ UNCHANGED <<pageVars, request, ev, watch>>

\* What the text-to-speech service answers the route: a status and a body
\* (audio bytes or a JSON error document), or nothing when it cannot be
\* reached (fetch rejects).
UpstreamReplies ==
    [kind : {"reply"}, status : {200, 401, 429, 500}, content : {"audio", "json"},
     size : {0, 1}]
        \cup {[kind |-> "unreachable"]}

SpeakRequests == [route : {"speak"}, json : BOOLEAN, upstream : UpstreamReplies]

AudioMpeg == <<"a", "u", "d", "i", "o", "/", "m", "p", "e", "g">>

\* A speak route that reports an upstream failure and asks for the local
\* fallback.
SpeakPOSTSignalsFallback ==
    /\ request.route = "speak"
    /\ response = NoResponse
    /\ response' =
          IF ~request.json \/ request.upstream.kind = "unreachable"
          THEN InternalError
          ELSE IF request.upstream.status # 200
          THEN [status |-> 500,
                body |-> [error |-> "Failed to generate speech", useBrowserTTS |-> TRUE]]
          ELSE [status |-> 200,
                contentType |-> AudioMpeg,
                body |-> [content |-> request.upstream.content,
                          size |-> request.upstream.size]]
    /\ UNCHANGED <<pageVars, request, ev, watch>>

\* POST of the speak route: await req.json(), await fetch(...), then the
\* upstream body is returned under Content-Type audio/mpeg with the default
\* status; response.ok and response.status are not looked at.
SpeakPOST ==
    /\ request.route = "speak"
    /\ response = NoResponse
    /\ response' =
          IF ~request.json \/ request.upstream.kind = "unreachable"
          THEN InternalError                 \* the handler throws
          ELSE [status |-> 200,
                contentType |-> AudioMpeg,
                body |-> [content |-> request.upstream.content,
                          size |-> request.upstream.size]]
    /\ UNCHANGED <<pageVars, request, ev, watch>>

\* How speakText reads the answer of /api/speak: !res.ok with or without
\* errorData.useBrowserTTS, else the content-type test and the blob size.
SpeakReplyOf(res) ==
    IF res.status # 200
    THEN IF "useBrowserTTS" \in DOMAIN res.body /\ res.body.useBrowserTTS
         THEN [kind |-> "fallback"]
         ELSE [kind |-> "error", error |-> res.body.error, status |-> res.status]
    ELSE [kind |-> "ok",
          audio |-> includes(res.contentType, <<"a", "u", "d", "i", "o">>),
          size |-> res.body.size]

MaxUploadBytes == 10 * 1024 * 1024

ImagePrefix == <<"i", "m", "a", "g", "e", "/">>

UploadTypes == {<<"i", "m", "a", "g", "e", "/", "p", "n", "g">>,
                <<"i", "m", "a", "g", "e">>,
                <<"t", "e", "x", "t", "/", "p", "l", "a", "i", "n">>,
                <<>>}

UploadSizes == {0, 1, MaxUploadBytes, MaxUploadBytes + 1}

Uploads ==
    {[kind |-> "notMultipart"], [kind |-> "none"]}
        \cup [kind : {"text"}, value : {"", "x"}]
        \cup [kind : {"file"}, name : {"a.png"}, type : UploadTypes, size : UploadSizes]

ImageRequests ==
    [route : {"process-image"}, authError : BOOLEAN, user : BOOLEAN, upload : Uploads]

\* if (authError || !user)
Unauthorized(req) == req.authError \/ ~req.user

\* if (!file): formData.get gives null for a missing field, and the empty
\* string is falsy too.
NoFile(upload) ==
    \/ upload.kind = "none"
    \/ (upload.kind = "text" /\ upload.value = "")

\* An upload on which the size test is true.
TooLargeFromLimit(upload) == upload.size >= MaxUploadBytes

\* if (file.size > 10 * 1024 * 1024)
TooLarge(upload) == upload.size > MaxUploadBytes

BadRequest(message) == [status |-> 400, body |-> [error |-> message]]

\* POST of the process-image route.
ProcessImagePOST ==
    /\ request.route = "process-image"
    /\ response = NoResponse
    /\ response' =
          IF Unauthorized(request)
          THEN [status |-> 401, body |-> [error |-> "Unauthorized"]]
          ELSE IF request.upload.kind = "notMultipart"
          THEN InternalError                 \* request.formData() rejects
          ELSE IF NoFile(request.upload)
          THEN BadRequest("No image file provided")
          ELSE IF request.upload.kind = "text"
          THEN InternalError                 \* file.type is undefined
          ELSE IF ~startsWith(request.upload.type, ImagePrefix)
          THEN BadRequest("File must be an image")
          ELSE IF TooLarge(request.upload)
          THEN BadRequest("File size must be less than 10MB")
          ELSE [status |-> 200,
                body |-> [labels |-> <<"cat", "animal", "pet", "feline">>,
                          confidence |-> 92,
                          filename |-> request.upload.name,
                          size |-> request.upload.size,
                          type |-> request.upload.type]]
    /\ UNCHANGED <<pageVars, request, ev, watch>>

\* ------------------------------------------------------------ emotional mood
negativeKeywords ==
    <<<<"h", "i", "g", "h", " ", "s", "u", "g", "a", "r">>,
      <<"a", "r", "t", "i", "f", "i", "c", "i", "a", "l">>,
      <<"p", "r", "e", "s", "e", "r", "v", "a", "t", "i", "v", "e">>,
      <<"p", "r", "o", "c", "e", "s", "s", "e", "d">>,
      <<"a", "d", "d", "i", "t", "i", "v", "e", "s">>,
      <<"s", "y", "n", "t", "h", "e", "t", "i", "c">>>>

positiveKeywords ==
    <<<<"o", "r", "g", "a", "n", "i", "c">>,
      <<"n", "a", "t", "u", "r", "a", "l">>,
      <<"w", "h", "o", "l", "e">>,
      <<"h", "e", "a", "l", "t", "h", "y">>,
      <<"n", "u", "t", "r", "i", "t", "i", "o", "u", "s">>,
      <<"f", "r", "e", "s", "h">>>>

\* The characters of the analysis texts the mood scenario replies with.
Content(text) ==
    CASE text = "neg" -> <<"H", "i", "g", "h", " ", "S", "u", "g", "a", "r", ",", " ", "f", "e", "w", " ", "A", "R", "T", "I", "F", "I", "C", "I", "A", "L", " ", "c", "o", "l", "o", "u", "r", "s">>
      [] text = "both" -> <<"O", "r", "g", "a", "n", "i", "c", " ", "o", "a", "t", "s", ",", " ", "b", "u", "t", " ", "P", "r", "o", "c", "e", "s", "s", "e", "d">>
      [] text = "pos" -> <<"F", "r", "e", "s", "h", " ", "a", "n", "d", " ", "N", "u", "t", "r", "i", "t", "i", "o", "u", "s">>
      [] text = "plain" -> <<"W", "a", "t", "e", "r", " ", "a", "n", "d", " ", "s", "a", "l", "t">>
      [] OTHER -> <<>>

\* A scan that looks for the positive keywords first.
emotionalMoodPositiveFirst(result) ==
    IF result = NoText \/ result = "" THEN "none"
    ELSE LET text == toLowerCase(Content(result))
             hasNegative == \E k \in 1..Len(negativeKeywords) :
                                includes(text, negativeKeywords[k])
             hasPositive == \E k \in 1..Len(positiveKeywords) :
                                includes(text, positiveKeywords[k])
         IN  IF hasPositive THEN "positive"
             ELSE IF hasNegative THEN "negative"
             ELSE "none"

\* useMemo(() => ..., [analysisResult]); null is written "none".
emotionalMoodOf(result) ==
    IF result = NoText \/ result = "" THEN "none"
    ELSE LET text == toLowerCase(Content(result))
             hasNegative == \E k \in 1..Len(negativeKeywords) :
                                includes(text, negativeKeywords[k])
             hasPositive == \E k \in 1..Len(positiveKeywords) :
                                includes(text, positiveKeywords[k])
         IN  IF hasNegative THEN "negative"
             ELSE IF hasPositive THEN "positive"
             ELSE "none"

emotionalMood == emotionalMoodOf(analysisResult)

MoodData == [text : {"", "neg", "both", "pos", "plain"}, confidence : {95},
             isUncertain : {FALSE}]

\* No route handler has been entered.
ServerIdle == request = NoRequest /\ response = NoResponse

Init ==
    /\ browser \in [recognition : {"available", "absent", "broken"}, synthesis : BOOLEAN,
                   voices : VoiceLists]
    /\ aiState = "idle"
    /\ ingredients = <<>>
    /\ analyzing = FALSE
    /\ listening = FALSE
    /\ analysisResult = NoText
    /\ analysisError = ""
    /\ speechRecognitionSupported = (browser.recognition = "available")
    /\ micError = CASE browser.recognition = "available" -> NoMessage
                    [] browser.recognition = "absent" -> MsgRecUnsupported
                    [] browser.recognition = "broken" -> MsgRecInitFailed
    /\ typingTimer = NoTimer
    /\ fallbackTimer = NoTimer
    /\ resetTimers = <<>>
    /\ analysisReqs = 0
    /\ playbacks = <<>>
    /\ utterance = NoUtterance
    /\ cancelledUtterances = <<>>
    /\ probes = 0
    /\ rec = "inactive"
    /\ ev = NoEvent
    /\ watch = NoWatch

\* What the environment does in every scenario: typing, submitting, the
\* analysis collaborator's replies, and time.
Core ==
    \/ \E v \in TypedInputs : SetIngredients(v)
    \/ ClickAnalyze
    \/ \E kind \in AnalysisFailures : AnalyzeReplyFailed(kind)
    \/ TypingTimerFire
    \/ \E i \in 1..MaxResetTimers : ResetTimerFire(i)
    \/ Tick

\* The synthesis collaborator answers with audio or with a failure.
RemoteSpeech ==
    \/ \E i \in 1..MaxPlaybacks, reply \in RemoteReplies : SpeakReply(i, reply)
    \/ \E i \in 1..MaxPlaybacks : AudioPlayResolved(i)
    \/ \E i \in 1..MaxPlaybacks, name \in PlayErrors : AudioPlayRejected(i, name)
    \/ \E i \in 1..MaxPlaybacks, code \in MediaErrorCodes : AudioError(i, code)
    \/ \E i \in 1..MaxPlaybacks : AudioEnded(i)
    \/ FallbackTimerFire

\* The synthesis collaborator asks for the local fallback.
LocalSpeech ==
    \/ \E i \in 1..MaxPlaybacks, reply \in FallbackReplies : SpeakReply(i, reply)
    \/ UtteranceEnd
    \/ UtteranceError
    \/ CancelledUtteranceError
    \/ FallbackTimerFire

\* The user dictates.
Capture ==
    \/ ClickRecord
    \/ ProbeGranted
    \/ \E name \in ProbeErrors : ProbeDenied(name)
    \/ RecOnStart
    \/ \E transcript \in Transcripts : RecOnResult(transcript)
    \/ \E error \in RecErrors \cup {"aborted"} : RecOnError(error)
    \/ RecOnEnd

\* The synthesis collaborator cannot be reached.
NoSpeech ==
    \/ \E i \in 1..MaxPlaybacks, reply \in UnreachableReplies : SpeakReply(i, reply)
    \/ FallbackTimerFire

\* A browser without speech recognition (no Record button is rendered).
InitTyping ==
    /\ Init
    /\ browser = [recognition |-> "absent", synthesis |-> TRUE, voices |-> <<>>]
    /\ ServerIdle

\* A browser without speech recognition, with or without speech synthesis.
InitLocal == Init /\ browser.recognition = "absent" /\ browser.voices = <<>> /\ ServerIdle

\* A browser with speech recognition.
InitVoice ==
    /\ Init
    /\ browser = [recognition |-> "available", synthesis |-> TRUE, voices |-> <<>>]
    /\ ServerIdle

\* The dashboard page with typed input and remote synthesis.
Next ==
    \/ Core
    \/ \E data \in TypicalData : AnalyzeReplyOk(data)
    \/ RemoteSpeech

Spec == InitTyping /\ [][Next]_vars

\* The page variant with the clickable mascot; handleAnalyze is also entered
\* with nothing but blanks in the box.
NextMascot ==
    \/ Core
    \/ \E data \in TypicalData : AnalyzeReplyOk(data)
    \/ NoSpeech
    \/ handleCopilotClick
    \/ SubmitEmpty

SpecMascot == InitTyping /\ [][NextMascot]_vars

\* Typed input, the synthesis collaborator asking for the local fallback.
NextLocal ==
    \/ Core
    \/ \E data \in SpokenData : AnalyzeReplyOk(data)
    \/ LocalSpeech

SpecLocal == InitLocal /\ [][NextLocal]_vars

\* Dictated and typed input; every analysis succeeds.
NextVoice ==
    \/ \E v \in TypedInputs : SetIngredients(v)
    \/ ClickAnalyze
    \/ TypingTimerFire
    \/ Tick
    \/ \E data \in VoiceData : AnalyzeReplyOk(data)
    \/ NoSpeech
    \/ Capture

SpecVoice == InitVoice /\ [][NextVoice]_vars

\* What the user does on the page with typed input.
UserInput ==
    \/ \E v \in {<<>>, <<"a">>} : SetIngredients(v)
    \/ ClickAnalyze

\* What happens without the user: replies, media events, timers, time.
Completion ==
    \/ \E data \in ConfidentData : AnalyzeReplyOk(data)
    \/ AnalyzeReplyFailed("network")
    \/ \E i \in 1..MaxPlaybacks : SpeakReply(i, [kind |-> "ok", audio |-> TRUE, size |-> 1])
    \/ \E i \in 1..MaxPlaybacks : AudioPlayResolved(i)
    \/ \E i \in 1..MaxPlaybacks : AudioEnded(i)
    \/ FallbackTimerFire
    \/ TypingTimerFire
    \/ \E i \in 1..MaxResetTimers : ResetTimerFire(i)
    \/ Tick

\* Typed input and remote audio that plays to its end; every reply, media
\* event and timer that is due eventually arrives, the user may stop at
\* any time.
NextQuiet ==
    \/ UserInput
    \/ Completion

SpecQuiet == InitTyping /\ [][NextQuiet]_vars /\ WF_vars(Completion)

\* One analysis at a time, spoken with every outcome the synthesis
\* collaborator, the audio element and the local synthesizer can produce.
AllSpeakReplies ==
    RemoteReplies \cup FallbackReplies \cup UnreachableReplies
        \cup {[kind |-> "badJson"],
              [kind |-> "error", error |-> MsgSpeakUpstream, status |-> 500],
              [kind |-> "error", error |-> "", status |-> 500]}
AllPlayErrors == {"NotAllowedError", "NotSupportedError", "WithMessage", "AbortError"}
AllMediaErrorCodes == 0..4

NextSpeech ==
    \/ SetIngredients(<<"a">>)
    \/ ClickAnalyze
    \/ \E data \in ConfidentData : AnalyzeReplyOk(data)
    \/ \E i \in 1..MaxPlaybacks, reply \in AllSpeakReplies : SpeakReply(i, reply)
    \/ \E i \in 1..MaxPlaybacks : AudioPlayResolved(i)
    \/ \E i \in 1..MaxPlaybacks, name \in AllPlayErrors : AudioPlayRejected(i, name)
    \/ \E i \in 1..MaxPlaybacks, code \in AllMediaErrorCodes : AudioError(i, code)
    \/ \E i \in 1..MaxPlaybacks : AudioEnded(i)
    \/ UtteranceEnd
    \/ UtteranceError
    \/ CancelledUtteranceError
    \/ TypingTimerFire
    \/ FallbackTimerFire
    \/ Tick

SpecSpeech == InitLocal /\ [][NextSpeech]_vars

\* Typed input whose analysis texts carry mood keywords; the synthesis
\* collaborator cannot be reached.
NextMood ==
    \/ \E v \in {<<>>, <<"a">>} : SetIngredients(v)
    \/ ClickAnalyze
    \/ \E data \in MoodData : AnalyzeReplyOk(data)
    \/ AnalyzeReplyFailed("network")
    \/ NoSpeech
    \/ TypingTimerFire
    \/ \E i \in 1..MaxResetTimers : ResetTimerFire(i)
    \/ Tick

SpecMood == InitTyping /\ [][NextMood]_vars

\* Typed input spoken by the local synthesizer of a browser that lists any
\* voices.
InitVoiceList ==
    /\ Init
    /\ browser.recognition = "absent"
    /\ browser.synthesis
    /\ ServerIdle

NextVoiceList ==
    \/ SetIngredients(<<"a">>)
    \/ ClickAnalyze
    \/ \E data \in ConfidentData : AnalyzeReplyOk(data)
    \/ \E i \in 1..MaxPlaybacks, reply \in FallbackReplies : SpeakReply(i, reply)
    \/ UtteranceEnd
    \/ TypingTimerFire
    \/ FallbackTimerFire
    \/ Tick

SpecVoiceList == InitVoiceList /\ [][NextVoiceList]_vars

\* Typed input spoken remotely or locally, with the stop handler entered
\* at any time.
NextStop ==
    \/ SetIngredients(<<"a">>)
    \/ ClickAnalyze
    \/ \E data \in ConfidentData : AnalyzeReplyOk(data)
    \/ \E i \in 1..MaxPlaybacks,
          reply \in {[kind |-> "ok", audio |-> TRUE, size |-> 1], [kind |-> "fallback"]} :
            SpeakReply(i, reply)
    \/ \E i \in 1..MaxPlaybacks : AudioPlayResolved(i)
    \/ \E i \in 1..MaxPlaybacks : AudioEnded(i)
    \/ UtteranceEnd
    \/ CancelledUtteranceError
    \/ handleStopSpeaking
    \/ TypingTimerFire
    \/ FallbackTimerFire
    \/ Tick

SpecStop == InitLocal /\ [][NextStop]_vars

\* Typed input whose analysis is confident or uncertain, spoken with remote
\* audio that plays to its end.
NextUnsure ==
    \/ UserInput
    \/ \E data \in UnsureData \cup ConfidentData : AnalyzeReplyOk(data)
    \/ \E i \in 1..MaxPlaybacks : SpeakReply(i, [kind |-> "ok", audio |-> TRUE, size |-> 1])
    \/ \E i \in 1..MaxPlaybacks : AudioPlayResolved(i)
    \/ \E i \in 1..MaxPlaybacks : AudioEnded(i)
    \/ FallbackTimerFire
    \/ TypingTimerFire
    \/ Tick

SpecUnsure == InitTyping /\ [][NextUnsure]_vars

\* A browser without speech recognition, or one whose constructor throws.
InitUnsupported ==
    /\ Init
    /\ browser.recognition # "available"
    /\ browser.synthesis
    /\ browser.voices = <<>>
    /\ ServerIdle

NextUnsupported ==
    \/ \E v \in TypedInputs : SetIngredients(v)
    \/ ClickAnalyze
    \/ TypingTimerFire
    \/ Tick
    \/ \E data \in AnyData : AnalyzeReplyOk(data)
    \/ NoSpeech
    \/ StartUnsupported

SpecUnsupported == InitUnsupported /\ [][NextUnsupported]_vars

\* The routes, each entered once with a request of its kind.
Requests == AnalyzeRequests \cup ImageRequests \cup SpeakRequests

InitRoutes ==
    /\ Init
    /\ browser = [recognition |-> "absent", synthesis |-> TRUE, voices |-> <<>>]
    /\ request \in Requests
    /\ response = NoResponse

NextRoutes ==
    \/ AnalyzePOST
    \/ ProcessImagePOST
    \/ SpeakPOST

SpecRoutes == InitRoutes /\ [][NextRoutes]_vars

TypeOK ==
    /\ aiState \in AIState
    /\ analyzing \in BOOLEAN /\ listening \in BOOLEAN
    /\ Len(ingredients) <= MaxLen
    /\ analysisReqs \in Nat
    /\ probes \in 0..MaxProbes

\* ------------------------------------------------------------------ claims
\* A terminal event (audio ended, audio error, play rejection) of the
\* playback at position i is delivered in this step.
TerminalEventOf(i) ==
    /\ playbacks[i].stage \in {"play", "playing", "rejecting"}
    /\ \/ playbacks' = RemoveAt(playbacks, i)
       \/ /\ playbacks[i].stage = "play"
          /\ playbacks' = [playbacks EXCEPT ![i].stage = "rejecting"]

\* C1: a terminal event (audio ended, audio error, play rejection) of a
\* playback that a newer speakText has superseded leaves aiState unchanged.
C1_SupersededPlaybackKeepsState ==
    [][\A i \in 1..Len(playbacks) :
          (playbacks[i].stale /\ TerminalEventOf(i)) => aiState' = aiState]_vars

\* The reset timer at position i, armed on entering a warning, fires.
WarningTimerFires(i) ==
    /\ ResetTimerFire(i)
    /\ resetTimers[i].kind \in {"emptyWarning", "failWarning"}

\* C2: a warning's auto-reset timer (3 s after an empty submission, 5 s
\* after an analysis failure) that fires when aiState is no longer warning
\* leaves aiState unchanged.
C2_WarningTimerOnlyResetsWarning ==
    [][\A i \in 1..Len(resetTimers) :
          (WarningTimerFires(i) /\ aiState # "warning") => aiState' = aiState]_vars

\* The laugh timer at position i fires.
LaughTimerFires(i) ==
    /\ ResetTimerFire(i)
    /\ resetTimers[i].kind = "laugh"

\* C3: clicking the mascot in idle sets aiState to laugh, and a laugh timer
\* that fires after another transition has superseded laugh leaves aiState
\* unchanged.
C3_SupersededLaughTimerKeepsState ==
    [][/\ (ev'.name = "handleCopilotClick" /\ aiState = "idle") => aiState' = "laugh"
       /\ \A i \in 1..Len(resetTimers) :
            (LaughTimerFires(i) /\ aiState # "laugh") => aiState' = aiState]_vars

\* The reply the claim calls uncertain: isUncertain, or confidence 0.5.
UncertainReply(data) == data.isUncertain \/ data.confidence = 50

\* C4: once the completion handler has run on an uncertain reply with
\* non-empty text, aiState is unsure, not speaking.
C4_UncertainReplyEntersUnsure ==
    (ev.name = "AnalyzeReplyOk" /\ UncertainReply(ev.data) /\ ev.data.text # "")
        => aiState = "unsure"

\* The reply the claim calls confident: confidence 0.95, not uncertain,
\* non-empty text.
ConfidentReply(data) == ~data.isUncertain /\ data.confidence = 95 /\ data.text # ""

\* C5: after a confident reply with non-empty text, with nothing happening
\* but the passage of time, aiState is speaking until the 10-second
\* fallback timer fires.
C5_ConfidentReplyStaysSpeaking ==
    (watch.op.name = "AnalyzeReplyOk" /\ ConfidentReply(watch.op.data)
        /\ watch.elapsed < FallbackDelay)
        => aiState = "speaking"

\* The windows the claims name, in ticks.
ThreeSeconds == 3000 \div TickMs
FiveSeconds == 5000 \div TickMs

\* C6: handleAnalyze on an input that is empty after trimming issues no
\* analysis request, sets the message "Please enter ingredients to analyze",
\* sets aiState to warning and does not set the analyzing flag; with nothing
\* happening but the passage of time, aiState is warning until it becomes
\* idle exactly 3 seconds later.
C6_EmptySubmitWarnsThenIdles ==
    [][/\ ev'.name = "submitEmpty" =>
            /\ analysisReqs' = analysisReqs
            /\ analyzing' = analyzing
            /\ analysisError' = "Please enter ingredients to analyze"
            /\ aiState' = "warning"
       /\ watch'.op.name = "submitEmpty" =>
            /\ watch'.elapsed <= ThreeSeconds
            /\ watch'.elapsed < ThreeSeconds => aiState' = "warning"
            /\ resetTimers' # <<>> => aiState' = "warning"
            /\ resetTimers' = <<>> =>
                  (aiState' = "idle" /\ watch'.elapsed = ThreeSeconds)]_vars

\* C6 witness: an empty submission, then 3 seconds, then idle.
C6_Witness ==
    /\ watch.op.name = "submitEmpty"
    /\ watch.elapsed = ThreeSeconds
    /\ resetTimers = <<>>
    /\ aiState = "idle"
    /\ analysisError = MsgEmptyInput
    /\ analysisReqs = 0

\* C7: after a failed analysis request no result is stored, the analyzing
\* flag is clear, the message is "Something went wrong. Please try again."
\* and aiState is warning; with nothing happening but the passage of time,
\* aiState stays warning for 5 seconds.
C7_FailureWarnsForFiveSeconds ==
    /\ ev.name = "AnalyzeReplyFailed" =>
          /\ analysisResult = NoText
          /\ ~analyzing
          /\ analysisError = "Something went wrong. Please try again."
          /\ aiState = "warning"
    /\ (watch.op.name = "AnalyzeReplyFailed" /\ watch.elapsed < FiveSeconds) =>
          aiState = "warning"

\* The continuation of speakText runs on a reply carrying the fallback flag.
FallbackReplyHandled == ev'.name = "SpeakReply" /\ ev'.reply.kind = "fallback"

\* The local utterance ends.
LocalUtteranceEnds ==
    utterance # NoUtterance /\ utterance' = NoUtterance /\ analysisError' = analysisError

\* Local synthesis is invoked with the text of the attempt whose reply is
\* handled, and no error message is set.
LocalSynthesisTakesOver ==
    \E i \in 1..Len(playbacks) :
        /\ playbacks[i].stage = "fetch"
        /\ playbacks' = RemoveAt(playbacks, i)
        /\ utterance' # NoUtterance
        /\ utterance'.text = playbacks[i].text
        /\ analysisError' = analysisError

\* C8: on a remote synthesis failure carrying the use-local-fallback flag,
\* local synthesis is invoked with the same text and no error message is
\* set; aiState is idle when the local utterance ends.
C8_FallbackSpeaksLocally ==
    [][/\ FallbackReplyHandled => LocalSynthesisTakesOver
       /\ LocalUtteranceEnds => aiState' = "idle"]_vars

\* C8 as amended: the same, in a browser that offers speech synthesis.
C8_FallbackSpeaksLocallyIfOffered ==
    [][/\ (FallbackReplyHandled /\ browser.synthesis) => LocalSynthesisTakesOver
       /\ LocalUtteranceEnds => aiState' = "idle"]_vars

\* C8 witness: the second text is being spoken locally after a fallback
\* reply, with no error message.
C8_Witness ==
    /\ ev.name = "SpeakReply"
    /\ ev.reply.kind = "fallback"
    /\ browser.synthesis
    /\ utterance.text = "t2"
    /\ analysisResult = "t2"
    /\ aiState = "speaking"
    /\ analysisError = ""

\* The continuation of speakText runs on a 2xx reply that is not audio or
\* is empty.
InvalidAudioHandled ==
    /\ ev'.name = "SpeakReply"
    /\ ev'.reply.kind = "ok"
    /\ (~ev'.reply.audio \/ ev'.reply.size = 0)

\* C9: a 2xx synthesis reply that is not audio, or is empty, makes speak
\* go on to local synthesis with the same text.
C9_InvalidAudioSpeaksLocally ==
    [][InvalidAudioHandled =>
          \E i \in 1..Len(playbacks) :
              /\ playbacks[i].stage = "fetch"
              /\ playbacks' = RemoveAt(playbacks, i)
              /\ utterance' # NoUtterance
              /\ utterance'.text = playbacks[i].text]_vars

\* C9 as amended: a 2xx synthesis reply that is not audio, or is empty, ends
\* the attempt: the message is "Invalid audio response. Please check your
\* API configuration." or "Empty audio response. Please try again.", aiState
\* is idle, the attempt is over and local synthesis is not invoked.
C9_InvalidAudioEndsAttempt ==
    [][InvalidAudioHandled =>
          /\ analysisError' =
                IF ~ev'.reply.audio
                THEN "Invalid audio response. Please check your API configuration."
                ELSE "Empty audio response. Please try again."
          /\ aiState' = "idle"
          /\ Len(playbacks') = Len(playbacks) - 1
          /\ utterance' = utterance
          /\ cancelledUtterances' = cancelledUtterances]_vars

\* C9 witness: an empty audio reply has ended the attempt.
C9_Witness ==
    /\ ev.name = "SpeakReply"
    /\ ev.reply.kind = "ok"
    /\ ev.reply.audio
    /\ ev.reply.size = 0
    /\ analysisError = MsgEmptyAudio
    /\ aiState = "idle"
    /\ playbacks = <<>>

\* handleStopListening runs while the listening flag is set.
StopsActiveSession == listening /\ rec # "aborting" /\ rec' = "aborting"

\* The abort event of a stopped session is delivered.
AbortEventDelivered == rec = "aborting" /\ rec' = "ending"

\* C10: handleStopListening on an active session sets aiState to idle and
\* clears the listening flag and micError, whatever aiState was; micError is
\* still clear after the stopped session's abort event has been delivered.
C10_StopClearsMicError ==
    [][/\ StopsActiveSession =>
            (aiState' = "idle" /\ ~listening' /\ micError' = NoMessage)
       /\ (AbortEventDelivered /\ micError = NoMessage) => micError' = NoMessage]_vars

\* The playbacks whose sound is being produced: remote audio that has
\* started to play, and the local utterance.
PlaybacksInProgress ==
    Cardinality({i \in 1..Len(playbacks) : playbacks[i].stage = "playing"})
        + (IF utterance # NoUtterance THEN 1 ELSE 0)

\* C11: at most one playback (remote audio or local utterance) is in
\* progress in every reachable state.
C11_AtMostOnePlayback == PlaybacksInProgress <= 1

\* An analysis reply is handled in this step.
AnalysisReplyArrives == analysisReqs' < analysisReqs

\* C12: while a recording session is active and aiState is listening, the
\* arrival of the reply to an earlier analysis request leaves aiState
\* listening.
C12_ReplyKeepsListening ==
    [][(listening /\ rec = "running" /\ aiState = "listening" /\ AnalysisReplyArrives)
          => aiState' = "listening"]_vars

\* The message the claim's classes call for: permission denied, no device,
\* device busy, and the rest (the error's own message, or the default).
ClaimedMicMessage(error) ==
    CASE error = "NotAllowedError" ->
            "Microphone permission denied. Please allow microphone access in your browser settings and try again."
      [] error = "NotFoundError" ->
            "No microphone found. Please connect a microphone and try again."
      [] error = "NotReadableError" ->
            "Microphone is being used by another application. Please close other apps using the microphone."
      [] error = "WithMessage" -> "getUserMedia failure detail"
      [] OTHER -> "Microphone access denied."

StartOnActiveSession == ev'.name = "ProbeGranted" /\ rec \in {"starting", "running"}

\* C14: recognition.start() invoked while a session is active (also before
\* the engine has delivered its start event) stops that session first.
C14_StartStopsActiveSession ==
    [][StartOnActiveSession => rec' = "aborting"]_vars

AtRest == aiState = "idle" \/ (aiState = "listening" /\ Trim(ingredients) # <<>>)

SevenValues == {"idle", "listening", "thinking", "speaking", "unsure", "warning", "laugh"}

UserSubmits == ~AnalyzeDisabled /\ analyzing'

SynthesisReqs == Cardinality({i \in 1..Len(playbacks) : playbacks[i].stage = "fetch"})

SynthesisFailed ==
    /\ ev'.name = "SpeakReply"
    /\ ~(ev'.reply.kind = "ok" /\ ev'.reply.audio /\ ev'.reply.size > 0)

C17_NoRetry ==
    [][/\ UserSubmits => analysisReqs' = analysisReqs + 1
       /\ analysisReqs' > analysisReqs => (UserSubmits /\ analysisReqs' = analysisReqs + 1)
       /\ SynthesisReqs' > SynthesisReqs =>
            /\ ev'.name = "AnalyzeReplyOk"
            /\ SynthesisReqs' = SynthesisReqs + 1
            /\ analysisReqs' = analysisReqs - 1
       /\ ev'.name = "AnalyzeReplyFailed" =>
            /\ analysisReqs' = analysisReqs - 1
            /\ SynthesisReqs' = SynthesisReqs
       /\ SynthesisFailed =>
            /\ SynthesisReqs' = SynthesisReqs - 1
            /\ analysisReqs' = analysisReqs]_vars

\* C17 witness: the only analysis request has failed and none is in flight.
C17_Witness ==
    /\ ev.name = "AnalyzeReplyFailed"
    /\ analysisReqs = 0
    /\ SynthesisReqs = 0
    /\ aiState = "warning"
    /\ ~analyzing


\* C20: when an analysis succeeds with empty result text, speech output is
\* not invoked and AssistantState becomes idle, whether or not the result is
\* uncertain.
EmptyTextReply == ev'.name = "AnalyzeReplyOk" /\ ev'.data.text = ""

C20_EmptyTextGoesIdle ==
    [][EmptyTextReply =>
          /\ aiState' = "idle"
          /\ playbacks' = playbacks
          /\ utterance' = utterance
          /\ cancelledUtterances' = cancelledUtterances
          /\ fallbackTimer' = fallbackTimer
          /\ analysisResult' = ""
          /\ ~analyzing']_vars

\* C20 witness: an uncertain reply with empty text has arrived; nothing is
\* being spoken and the state is idle.
C20_Witness ==
    /\ ev.name = "AnalyzeReplyOk"
    /\ ev.data.text = ""
    /\ ev.data.isUncertain
    /\ aiState = "idle"
    /\ playbacks = <<>>
    /\ utterance = NoUtterance


\* C18: the analysis route marks a reply uncertain exactly when its text
\* contains 3 or more of the listed uncertainty keywords, each distinct
\* keyword counted once; a text that contains only two distinct keywords is
\* never marked uncertain.
DistinctKeywords == {uncertaintyKeywords[k] : k \in 1..Len(uncertaintyKeywords)}

DistinctKeywordsIn(text) ==
    Cardinality({kw \in DistinctKeywords : includes(toLowerCase(text), kw)})

AnalyzeAnswered == request.route = "analyze" /\ response.status = 200

C18_UncertainFromThreeDistinct ==
    AnalyzeAnswered =>
        (response.body.isUncertain <=> DistinctKeywordsIn(response.body.text) >= 3)


\* C19: the image-processing route answers 401 to an unauthenticated caller
\* before it looks at the upload; for an authenticated caller it answers 400
\* when the image field is missing, when the file type does not start with
\* image/, or when the size exceeds 10 MB (a file of exactly 10 x 1024 x 1024
\* bytes is accepted), and otherwise answers with the canned labels and
\* confidence together with the file's name, size and type.
ImageAnswered == request.route = "process-image" /\ response # NoResponse

Authenticated == request.user /\ ~request.authError

TenMegabytes == 10 * 1024 * 1024

ImageFile ==
    /\ request.upload.kind = "file"
    /\ startsWith(request.upload.type, <<"i", "m", "a", "g", "e", "/">>)

C19_ImageRouteAnswers ==
    ImageAnswered =>
        /\ ~Authenticated => response.status = 401
        /\ (Authenticated /\ request.upload.kind = "none") => response.status = 400
        /\ (Authenticated /\ request.upload.kind = "file" /\ ~ImageFile) =>
              response.status = 400
        /\ (Authenticated /\ ImageFile /\ request.upload.size > TenMegabytes) =>
              response.status = 400
        /\ (Authenticated /\ ImageFile /\ request.upload.size <= TenMegabytes) =>
              /\ response.status = 200
              /\ response.body = [labels |-> <<"cat", "animal", "pet", "feline">>,
                                  confidence |-> 92,
                                  filename |-> request.upload.name,
                                  size |-> request.upload.size,
                                  type |-> request.upload.type]

\* C19 witness: an authenticated upload of an image of exactly 10 x 1024 x
\* 1024 bytes was answered with the labels.
C19_Witness ==
    /\ ImageAnswered
    /\ Authenticated
    /\ ImageFile
    /\ request.upload.size = TenMegabytes
    /\ response.status = 200
    /\ response.body.size = TenMegabytes


\* C21: when the browser offers no speech-recognition facility, start is a
\* no-op: no session is ever started, AssistantState is left unchanged, and
\* the unsupported condition is reported (support flag false, message set)
\* so that the voice-input control is not offered.
UnsupportedReported ==
    /\ ~speechRecognitionSupported
    /\ micError \in {MsgRecUnsupported, MsgRecInitFailed, MsgRecNotInit}
    /\ ~ENABLED ClickRecord

NoSessionEver == rec = "inactive" /\ probes = 0 /\ ~listening

C21_StartIsNoOpWhenUnsupported ==
    /\ [](browser.recognition # "available" => (UnsupportedReported /\ NoSessionEver))
    /\ [][ev'.name = "startUnsupported" =>
            /\ aiState' = aiState
            /\ rec' = rec
            /\ probes' = probes
            /\ listening' = listening
            /\ micError' # NoMessage]_vars

\* C21 witness: start was invoked during an analysis in a browser without
\* recognition; the state is still thinking and the message is set.
C21_Witness ==
    /\ ev.name = "startUnsupported"
    /\ browser.recognition = "absent"
    /\ aiState = "thinking"
    /\ micError = MsgRecNotInit
    /\ rec = "inactive"


\* C22: the typing transition to listening is taken only from idle: when the
\* 500 ms quiet-period timer fires it sets AssistantState to listening only if
\* the machine is idle, the input is non-empty and no analysis is in flight;
\* it never replaces speaking, unsure, warning, laugh or thinking.
TypingTimerFires ==
    /\ typingTimer = 0
    /\ typingTimer' = NoTimer
    /\ UNCHANGED <<ingredients, analyzing, listening, analysisResult, analysisError,
                   micError, resetTimers, analysisReqs, speechVars, captureVars>>

C22_TypingListensOnlyFromIdle ==
    [][(TypingTimerFires /\ aiState' = "listening") =>
          /\ aiState \in {"idle", "listening"}
          /\ Trim(ingredients) # <<>>
          /\ ~analyzing]_vars


\* C23: every state change cancels the auto-reset timers scheduled by earlier
\* states: when the machine re-enters warning or laugh while an earlier
\* warning or laugh timer is still pending, it stays in the re-entered state
\* for that entry's full window before returning to idle, so the timer that
\* ends a warning or a laugh is the one its latest entry scheduled.
ResetTimerFires ==
    /\ Len(resetTimers') = Len(resetTimers) - 1
    /\ UNCHANGED <<ingredients, analyzing, listening, analysisResult, analysisError,
                   micError, analysisReqs, speechVars, captureVars>>

C23_ReentryKeepsFullWindow ==
    [][(ResetTimerFires /\ aiState \in {"warning", "laugh"} /\ aiState' = "idle") =>
          resetTimers' = SubSeq(resetTimers, 1, Len(resetTimers) - 1)]_vars


\* C24: every entry into speaking or unsure schedules a 10-second safety-net
\* timer, including an entry made by the local-synthesis fallback while the
\* machine is already speaking: right after such an entry the timer has its
\* full 10 seconds to run.
TenSeconds == 10000 \div TickMs

LocalFallbackEntry ==
    /\ ev'.name = "SpeakReply"
    /\ ev'.reply.kind = "fallback"
    /\ utterance' # NoUtterance
    /\ utterance' # utterance

EntersSpokenState ==
    /\ aiState' \in {"speaking", "unsure"}
    /\ (aiState' # aiState \/ LocalFallbackEntry)

C24_EveryEntryArmsSafetyNet ==
    [][EntersSpokenState => fallbackTimer' = TenSeconds]_vars


\* C25: every failing outcome of a speak attempt other than a signalled
\* fallback (a failure reply without the fallback flag, a network failure of
\* the request, an invalid reply, play rejected, a media error, a local
\* synthesis error, or local synthesis being unavailable) sets a non-empty
\* user-facing error message and sets AssistantState to idle, without
\* invoking another synthesis attempt.
SpeakAttemptFails ==
    \/ /\ ev'.name = "SpeakReply"
       /\ \/ ev'.reply.kind \in {"error", "badJson", "network"}
          \/ (ev'.reply.kind = "ok" /\ (~ev'.reply.audio \/ ev'.reply.size = 0))
          \/ (ev'.reply.kind = "fallback" /\ ~browser.synthesis)
    \/ ev'.name \in {"AudioPlayRejected", "AudioError", "UtteranceError",
                     "CancelledUtteranceError"}

NoFurtherAttempt ==
    /\ Len(playbacks') <= Len(playbacks)
    /\ SynthesisReqs' <= SynthesisReqs
    /\ utterance' \in {utterance, NoUtterance}

C25_SpeakFailureReportsAndIdles ==
    [][SpeakAttemptFails =>
          /\ analysisError' \notin {"", NoMessage}
          /\ aiState' = "idle"
          /\ NoFurtherAttempt]_vars

\* C25 witness: the audio element reported an error without detail; the
\* generic message is shown and the state is idle.
C25_Witness ==
    /\ ev.name = "AudioError"
    /\ analysisError = MsgMediaNone
    /\ aiState = "idle"
    /\ playbacks = <<>>


\* C26: on a successful analysis reply the client takes the uncertain branch
\* (its first call is setAiState("unsure")) exactly when isUncertain is true
\* or confidence is below 0.7, for every confidence value in [0,1] including
\* 0; a reply with confidence at or above 0.7 and isUncertain false takes the
\* normal branch.
TookUncertainBranch == ev.calls[1] = "unsure"

C26_UncertainBranchBelowThreshold ==
    (ev.name = "AnalyzeReplyOk" /\ ev.data.confidence \in 0..100) =>
        (TookUncertainBranch <=> (ev.data.isUncertain \/ ev.data.confidence < 70))


\* C27: for every keyword-hit count n >= 0 the analysis route returns
\* confidence max(0, 1 - 0.15 n), which always lies in [0,1], and returns
\* isUncertain true exactly when that confidence is below 0.7: n = 2 gives
\* 0.70 and is not uncertain, n = 3 gives 0.55 and is uncertain, n >= 7
\* gives 0.  Confidence is in hundredths.
KeywordHits == uncertaintyCount(request.generated)

ClaimedConfidence(n) == IF n >= 7 THEN 0 ELSE 100 - 15 * n

C27_ConfidenceFromHits ==
    AnalyzeAnswered =>
        /\ response.body.confidence = ClaimedConfidence(KeywordHits)
        /\ response.body.confidence \in 0..100
        /\ response.body.isUncertain <=> response.body.confidence < 70
        /\ KeywordHits = 2 => (response.body.confidence = 70 /\ ~response.body.isUncertain)
        /\ KeywordHits = 3 => (response.body.confidence = 55 /\ response.body.isUncertain)
        /\ KeywordHits >= 7 => response.body.confidence = 0

\* C27 witness: a text with two keyword hits was answered with confidence
\* 0.70 and not uncertain.
C27_Witness ==
    /\ AnalyzeAnswered
    /\ KeywordHits = 2
    /\ response.body.confidence = 70
    /\ ~response.body.isUncertain


\* C28: cancellation of a capture session is cooperative: the stop call only
\* requests cancellation, and AssistantState leaves listening only when the
\* recognition engine's own terminal event (result, error or end) is
\* delivered, not at the stop call itself.
StopCall == rec \in {"starting", "running"} /\ rec' = "aborting"

C28_StopWaitsForTerminalEvent ==
    [][(StopCall /\ aiState = "listening") => (aiState' = "listening" /\ listening')]_vars


\* C29: in every start of dictation, all tracks of the permission-probe
\* stream are stopped before recognition start is called, and recognition
\* start is never called unless the probe succeeded.
StopsTracksBeforeStart(calls) ==
    \A j \in 1..Len(calls) :
        calls[j] = "recognition.start" => \E i \in 1..(j - 1) : calls[i] = "track.stop"

SessionStarts == rec = "inactive" /\ rec' # "inactive"

C29_TracksStoppedBeforeStart ==
    /\ [](ev.name = "ProbeGranted" => StopsTracksBeforeStart(ev.calls))
    /\ [][/\ SessionStarts => (ev'.name = "ProbeGranted" /\ probes' = probes - 1)
          /\ ev'.name = "ProbeDenied" => rec' = rec]_vars

\* C29 witness: the probe was granted and recognition has been started; no
\* probe is outstanding.
C29_Witness ==
    /\ ev.name = "ProbeGranted"
    /\ rec = "starting"
    /\ probes = 0
    /\ aiState = "listening"
    /\ micError = NoMessage


\* C30: whenever the input becomes empty (after trimming) while
\* AssistantState is listening and no analysis is in flight, AssistantState
\* becomes idle; a pending 500 ms typing timer is cancelled when the input
\* changes, so it never sets listening for an input that has since been
\* emptied.
InputEmptied == Trim(ingredients) # <<>> /\ Trim(ingredients') = <<>>

C30_EmptiedInputGoesIdle ==
    /\ [](typingTimer # NoTimer => Trim(ingredients) # <<>>)
    /\ [][/\ (InputEmptied /\ aiState = "listening" /\ ~analyzing) =>
                (aiState' = "idle" /\ typingTimer' = NoTimer)
          /\ (TypingTimerFires /\ aiState' = "listening") => Trim(ingredients') # <<>>
          /\ (ingredients' # ingredients /\ typingTimer # NoTimer) =>
                typingTimer' \in {NoTimer, TypingDelay}]_vars

\* C30 witness: the box was cleared while the typed text showed listening;
\* the state is idle and no typing timer is pending.
C30_Witness ==
    /\ ev.name = "clearListeningInput"
    /\ Trim(ingredients) = <<>>
    /\ aiState = "idle"
    /\ typingTimer = NoTimer
    /\ ~analyzing


\* C31: EmotionalMood is a pure function of the current analysis text: none
\* when there is no result, negative when the lower-cased text contains any
\* negative keyword (even if it also contains a positive keyword), positive
\* when it contains a positive keyword and no negative one, none otherwise;
\* it is none from the moment a new analysis is submitted until that
\* analysis's result arrives.
ClaimedMood(text) ==
    CASE text = "neg" -> "negative"
      [] text = "both" -> "negative"
      [] text = "pos" -> "positive"
      [] OTHER -> "none"

C31_MoodFollowsResultText ==
    /\ analysisResult = NoText => emotionalMood = "none"
    /\ analyzing => emotionalMood = "none"
    /\ ev.name = "AnalyzeReplyOk" => emotionalMood = ClaimedMood(ev.data.text)
    /\ analysisResult # NoText => emotionalMood = ClaimedMood(analysisResult)

\* C31 witness: a result that names both a positive and a negative keyword
\* has arrived and the mood is negative.
C31_Witness ==
    /\ ev.name = "AnalyzeReplyOk"
    /\ ev.data.text = "both"
    /\ analysisResult = "both"
    /\ emotionalMood = "negative"
\* The listed voices.
Listed == {browser.voices[i] : i \in DOMAIN browser.voices}

\* C32: the utterance handed to the local synthesizer carries a listed voice
\* labelled Natural or Neural in the target language when there is one,
\* else a locally hosted voice in that language when there is one, else any
\* voice in that language when there is one, else no voice (the platform
\* default speaks).
C32_VoicePreferenceOrder ==
    utterance # NoUtterance =>
        IF \E v \in Listed : isNaturalVoice(v)
        THEN utterance.voice \in Listed /\ isNaturalVoice(utterance.voice)
        ELSE IF \E v \in Listed : isLocalVoice(v)
        THEN utterance.voice \in Listed /\ isLocalVoice(utterance.voice)
        ELSE IF \E v \in Listed : isLangVoice(v)
        THEN utterance.voice \in Listed /\ isLangVoice(utterance.voice)
        ELSE utterance.voice = NoVoice

\* A locally hosted plain voice is listed before a remote Natural one, and
\* the utterance speaks with the Natural one.
C32_Witness ==
    /\ utterance # NoUtterance
    /\ Len(browser.voices) = 2
    /\ isLocalVoice(browser.voices[1]) /\ ~isNaturalVoice(browser.voices[1])
    /\ isNaturalVoice(browser.voices[2]) /\ ~browser.voices[2].localService
    /\ utterance.voice = browser.voices[2]

\* C33: stopping speech output leaves no playback (remote audio or local
\* utterance) in progress; entered while idle with nothing playing, it
\* leaves aiState idle and sets no error.
C33_StopCancelsPlayback ==
    [][ev'.name = "handleStopSpeaking" =>
          /\ PlaybacksInProgress' = 0
          /\ (aiState = "idle" /\ SpeaksInProgress = 0) =>
                (aiState' = "idle" /\ analysisError' = analysisError)]_vars

\* The reply just handled carries an uncertain result with text.
UncertainResultArrives ==
    /\ ev'.name = "AnalyzeReplyOk"
    /\ UncertainBranch(ev'.data)
    /\ ev'.data.text # ""

\* C34: an uncertain result with text is spoken: its reply starts exactly
\* one speak request, for the result text, and when the audio of a playback
\* ends aiState is idle, for an uncertain result as for a confident one.
C34_UncertainResultSpoken ==
    [][/\ UncertainResultArrives =>
            /\ Len(playbacks') = Len(playbacks) + 1
            /\ SynthesisReqs' = SynthesisReqs + 1
            /\ playbacks'[Len(playbacks')] =
                  [stage |-> "fetch", text |-> ev'.data.text, stale |-> FALSE]
       /\ ev'.name = "AudioEnded" => aiState' = "idle"]_vars

\* The audio of an uncertain result has just ended.
C34_Witness ==
    /\ ev.name = "AudioEnded"
    /\ ev.text = "u1"
    /\ analysisResult = "u1"
    /\ aiState = "idle"

\* C35: whenever aiState is thinking the analyzing flag is set and a request
\* is in flight, and every step that handles the reply of a request leaves
\* aiState other than thinking and the flag cleared.
C35_ThinkingOnlyWhileAnalyzing ==
    /\ [](aiState = "thinking" => (analyzing /\ analysisReqs > 0))
    /\ [][AnalysisReplyArrives => (aiState' # "thinking" /\ ~analyzing')]_vars

\* A confident reply without text has just been handled while thinking was
\* shown: idle is shown and the flag is cleared.
C35_Witness ==
    /\ ev.name = "AnalyzeReplyOk"
    /\ ev.data.text = ""
    /\ ~UncertainBranch(ev.data)
    /\ aiState = "idle"
    /\ ~analyzing
    /\ analysisReqs = 0

\* A request for analysis is sent in this step.
AnalysisRequestStarts == analysisReqs' > analysisReqs

\* C36: the analyzing flag is set exactly while an analysis request is in
\* flight, at most one request is in flight, every reply clears the flag,
\* and no request is started while a recognition session is running or the
\* flag or the listening flag is set or the input is blank.
C36_OneAnalysisAtATime ==
    /\ [](analyzing <=> analysisReqs > 0)
    /\ [](analysisReqs <= 1)
    /\ [][/\ AnalysisReplyArrives => ~analyzing'
          /\ AnalysisRequestStarts =>
                /\ rec # "running"
                /\ ~listening /\ ~analyzing /\ Trim(ingredients) # <<>>]_vars

\* C37: the 10 s fallback timer is pending only while aiState is speaking:
\* every step that leaves aiState other than speaking leaves no fallback
\* timer, every entry into speaking arms a fresh timer of the full delay,
\* and the timer fires only in speaking, which it changes to idle.
C37_FallbackTimerOnlyInSpeaking ==
    /\ [](fallbackTimer # NoTimer => aiState = "speaking")
    /\ [][/\ aiState' # "speaking" => fallbackTimer' = NoTimer
          /\ (aiState # "speaking" /\ aiState' = "speaking") => fallbackTimer' = FallbackDelay
          /\ FallbackTimerFire => (aiState = "speaking" /\ aiState' = "idle")]_vars

\* A new submission has replaced speaking by thinking while the audio of
\* the earlier result is still playing: no fallback timer is pending.
C37_Witness ==
    /\ aiState = "thinking"
    /\ \E i \in 1..Len(playbacks) : playbacks[i].stage = "playing"
    /\ fallbackTimer = NoTimer

\* The speak route has answered.
SpeakAnswered == request.route = "speak" /\ response # NoResponse

\* The request reached the text-to-speech service, which replied.
UpstreamReplied == request.json /\ request.upstream.kind = "reply"

\* C38: for every reply of the text-to-speech service, failures included,
\* the speak route answers 200 with an audio media type and the upstream
\* body; no answer of the route carries the use-local-fallback flag, so
\* speakText never reads it as a signalled fallback.
C38_SpeakRouteRelaysAnything ==
    SpeakAnswered =>
        /\ UpstreamReplied =>
              /\ response.status = 200
              /\ includes(response.contentType, <<"a", "u", "d", "i", "o">>)
              /\ response.body.content = request.upstream.content
              /\ response.body.size = request.upstream.size
              /\ SpeakReplyOf(response).kind = "ok"
        /\ ~("useBrowserTTS" \in DOMAIN response.body)
        /\ SpeakReplyOf(response).kind # "fallback"

\* The service refused with 401 and a JSON error document; the route has
\* answered 200 with that document as audio.
C38_Witness ==
    /\ SpeakAnswered
    /\ UpstreamReplied
    /\ request.upstream.status = 401
    /\ request.upstream.content = "json"
    /\ response.status = 200
    /\ response.contentType = AudioMpeg
    /\ SpeakReplyOf(response) = [kind |-> "ok", audio |-> TRUE, size |-> request.upstream.size]

\* C39: while a recognition session is running (its start event has been
\* delivered; no result, error, end or stop yet) aiState is listening, also
\* right after a start event that arrives with the input box empty.
C39_ListeningWhileSessionRuns ==
    [][(rec = "starting" /\ rec' = "running") => aiState' = "listening"]_vars
====
